---- MODULE Spec2Model ----
(***************************************************************************)
(* A model of pa-permission-group-analyzer (src/main.py): the group-file   *)
(* parser, the membership inverter/filter, the report writer and the       *)
(* command orchestrator.                                                   *)
(*                                                                         *)
(* A Python str is a sequence of one-character strings, so that strip,     *)
(* split and startswith are computed rather than assumed.  A Python dict   *)
(* is a sequence of <<key, value>> pairs in insertion order: assigning to  *)
(* an existing key keeps the key's position and replaces its value.        *)
(***************************************************************************)
EXTENDS Integers, Sequences, FiniteSets, Bags, TLC

VARIABLES
    \* ---- the process (main) ----
    pc,                       \* position of main: "start", "parse", "analyze", "write", "done", "exit"
    group_file,               \* content of the file args.group_file names: a sequence of lines
    isfile,                   \* os.path.isfile(args.group_file) when main validates
    min_groups,               \* args.min_groups
    output,                   \* args.output: "None" or "path"
    out_fs,                   \* the file args.output names: [exists, lines]
    open_result,              \* what open(group_file, "r") did: "none" before it is tried
    write_result,             \* what open/write of the output file did: "none" before it is tried
    group_memberships,        \* result of parse_group_file
    users_in_multiple_groups, \* result of analyze_user_groups
    stdout,                   \* lines printed
    stderr,                   \* log records and tracebacks
    exit_code,                \* <<>> while running, then <<status>>
    calls,                    \* the functions main has invoked, in order
    \* ---- parse of one line, on its own ----
    l_line, l_pc, l_memberships, l_stderr,
    \* ---- analyze_user_groups, on its own ----
    a_memberships, a_results

main_vars == <<pc, group_file, isfile, min_groups, output, out_fs, open_result,
               write_result, group_memberships, users_in_multiple_groups,
               stdout, stderr, exit_code, calls>>
line_vars == <<l_line, l_pc, l_memberships, l_stderr>>
analyze_vars == <<a_memberships, a_results>>
vars == <<main_vars, line_vars, analyze_vars>>

(***************************************************************************)
(* Bounds                                                                  *)
(***************************************************************************)
MaxLines == 3        \* lines of a group file
MaxMinGroups == 3    \* largest --min-groups
MaxLineLen == 5      \* characters of a line parsed on its own
MaxGroups == 2       \* groups of a mapping analysed on its own
MaxMembers == 2      \* members of one group of such a mapping

(***************************************************************************)
(* str                                                                     *)
(***************************************************************************)
Whitespace == {" ", "\t"}

RECURSIVE lstrip(_)
lstrip(s) == IF s # <<>> /\ Head(s) \in Whitespace THEN lstrip(Tail(s)) ELSE s

RECURSIVE rstrip(_)
rstrip(s) ==
    IF s # <<>> /\ s[Len(s)] \in Whitespace THEN rstrip(SubSeq(s, 1, Len(s) - 1)) ELSE s

\* str.strip()
strip(s) == rstrip(lstrip(s))

\* str.startswith(c), c one character
startswith(s, c) == s # <<>> /\ Head(s) = c

\* s.find(sep): the first index of sep in s (1-based), 0 when absent
RECURSIVE find(_, _, _)
find(s, sep, i) ==
    IF i > Len(s) THEN 0
    ELSE IF s[i] = sep THEN i
    ELSE find(s, sep, i + 1)

\* s.split(sep): always at least one piece
RECURSIVE split(_, _)
split(s, sep) ==
    LET i == find(s, sep, 1) IN
    IF i = 0 THEN <<s>>
    ELSE <<SubSeq(s, 1, i - 1)>> \o split(SubSeq(s, i + 1, Len(s)), sep)

\* s.split(sep, 1): at most one cut, at the first sep
split1(s, sep) ==
    LET i == find(s, sep, 1) IN
    IF i = 0 THEN <<s>>
    ELSE <<SubSeq(s, 1, i - 1), SubSeq(s, i + 1, Len(s))>>

\* sep.join(parts)
RECURSIVE join(_, _)
join(sep, parts) ==
    IF parts = <<>> THEN <<>>
    ELSE IF Len(parts) = 1 THEN parts[1]
    ELSE parts[1] \o sep \o join(sep, Tail(parts))

(***************************************************************************)
(* dict                                                                    *)
(***************************************************************************)
Keys(d) == {d[i][1] : i \in 1..Len(d)}

KeyIndex(d, k) == CHOOSE i \in 1..Len(d) : d[i][1] = k

\* d[k]
DictGet(d, k) == d[KeyIndex(d, k)][2]

\* d[k] = v, keeping the position of a key already present: the faulty variant
\* DictSetFirstWins leaves an existing entry as it is.
DictSetFirstWins(d, k, v) ==
    IF k \in Keys(d) THEN d ELSE Append(d, <<k, v>>)

DictSet(d, k, v) ==
    IF k \in Keys(d)
    THEN [d EXCEPT ![KeyIndex(d, k)] = <<k, v>>]
    ELSE Append(d, <<k, v>>)

(***************************************************************************)
(* parse_group_file                                                        *)
(***************************************************************************)
Empty == <<>>

\* [user.strip() for user in users if user.strip()], by recursion on the list.
\* The faulty variant tests the untrimmed token (if user), so a blank token is kept
\* as an empty member.
RECURSIVE StripNonEmptyUntrimmedTest(_)
StripNonEmptyUntrimmedTest(users) ==
    IF users = <<>> THEN <<>>
    ELSE IF Head(users) # Empty
         THEN <<strip(Head(users))>> \o StripNonEmptyUntrimmedTest(Tail(users))
         ELSE StripNonEmptyUntrimmedTest(Tail(users))

RECURSIVE StripNonEmpty(_)
StripNonEmpty(users) ==
    IF users = <<>> THEN <<>>
    ELSE IF strip(Head(users)) # Empty
         THEN <<strip(Head(users))>> \o StripNonEmpty(Tail(users))
         ELSE StripNonEmpty(Tail(users))

\* users = [user.strip() for user in users_str.split(",") if user.strip()]
ParseUsers(users_str) == StripNonEmpty(split(users_str, ","))

InvalidLine(line) == <<"ERROR", "Invalid line format in group file", line>>

\* The body of the loop over the file's lines, on the state st = [gm, err]
\* (the mapping so far and the records logged so far) and one raw line.
\* The faulty variant stores a line without ':' as a group with no members, as
\* str.partition would.
LineBodyPartition(st, raw) ==
    LET line == strip(raw)
        parts == split1(line, ":")
    IN  IF line = Empty \/ startswith(line, "#") THEN st
        ELSE IF Len(parts) # 2
             THEN [gm |-> DictSet(st.gm, strip(parts[1]), <<>>), err |-> st.err]
             ELSE [gm |-> DictSet(st.gm, strip(parts[1]), ParseUsers(parts[2])),
                   err |-> st.err]

LineBody(st, raw) ==
    LET line == strip(raw)
        parts == split1(line, ":")
    IN  IF line = Empty \/ startswith(line, "#") THEN st
        ELSE IF Len(parts) # 2
             THEN [gm |-> st.gm, err |-> Append(st.err, InvalidLine(line))]
             ELSE [gm |-> DictSet(st.gm, strip(parts[1]), ParseUsers(parts[2])),
                   err |-> st.err]

RECURSIVE ParseLines(_, _)
ParseLines(st, lines) ==
    IF lines = <<>> THEN st ELSE ParseLines(LineBody(st, Head(lines)), Tail(lines))

\* parse_group_file on a file that opened: the mapping and what was logged
ParseContent(lines) == ParseLines([gm |-> <<>>, err |-> <<>>], lines)

(***************************************************************************)
(* analyze_user_groups                                                     *)
(***************************************************************************)
\* user_to_groups[user].append(group) on a defaultdict(list).  The faulty variant
\* keeps a group name once per user, as a set of groups would.
DictAppendOnce(d, user, group) ==
    IF user \in Keys(d)
    THEN IF \E k \in 1..Len(DictGet(d, user)) : DictGet(d, user)[k] = group
         THEN d
         ELSE [d EXCEPT ![KeyIndex(d, user)] = <<user, Append(DictGet(d, user), group)>>]
    ELSE Append(d, <<user, <<group>>>>)

DictAppend(d, user, group) ==
    IF user \in Keys(d)
    THEN [d EXCEPT ![KeyIndex(d, user)] = <<user, Append(DictGet(d, user), group)>>]
    ELSE Append(d, <<user, <<group>>>>)

\* for user in users: user_to_groups[user].append(group)
RECURSIVE InvertUsers(_, _, _)
InvertUsers(d, group, users) ==
    IF users = <<>> THEN d
    ELSE InvertUsers(DictAppend(d, Head(users), group), group, Tail(users))

\* for group, users in group_memberships.items(): ...
RECURSIVE Invert(_, _)
Invert(d, gm) ==
    IF gm = <<>> THEN d
    ELSE Invert(InvertUsers(d, gm[1][1], gm[1][2]), Tail(gm))

\* {user: groups for user, groups in ... if len(groups) >= min_groups}; the
\* faulty variants compare with > and with ==.
FilterGreater(user_to_groups, t) ==
    LET Keep(e) == Len(e[2]) > t IN SelectSeq(user_to_groups, Keep)

FilterEqual(user_to_groups, t) ==
    LET Keep(e) == Len(e[2]) = t IN SelectSeq(user_to_groups, Keep)

Filter(user_to_groups, t) ==
    LET Keep(e) == Len(e[2]) >= t IN SelectSeq(user_to_groups, Keep)

analyze_user_groups(gm, t) == Filter(Invert(<<>>, gm), t)

(***************************************************************************)
(* write_output                                                            *)
(***************************************************************************)
UserPrefix == <<"U", "s", "e", "r", ":", " ">>
GroupsInfix == <<",", " ", "G", "r", "o", "u", "p", "s", ":", " ">>
CommaSpace == <<",", " ">>

\* f"User: {user}, Groups: {', '.join(groups)}"
FormatLine(user, groups) == UserPrefix \o user \o GroupsInfix \o join(CommaSpace, groups)

\* output_lines: one line per item of user_to_groups, in its order
OutputLines(user_to_groups) ==
    [i \in 1..Len(user_to_groups) |->
        FormatLine(user_to_groups[i][1], user_to_groups[i][2])]

(***************************************************************************)
(* main, step by step                                                      *)
(***************************************************************************)
GroupFileMissing == <<"ERROR", "Group file does not exist">>
MinGroupsNotPositive == <<"ERROR", "Minimum groups must be a positive integer.">>
GroupFileNotFound == <<"ERROR", "Group file not found">>
OutputWriteError == <<"ERROR", "Error writing to output file">>
OutputWritten == <<"INFO", "Analysis results written to">>
UncaughtException == <<"Traceback", "PermissionError">>

\* The two validations of main: where main goes next, the exit status and
\* what is logged.  The faulty variant leaves out the test of min_groups.
ValidateFileOnly(file_ok, t) ==
    IF ~file_ok THEN [pc |-> "exit", exit_code |-> <<1>>, err |-> <<GroupFileMissing>>]
    ELSE [pc |-> "parse", exit_code |-> <<>>, err |-> <<>>]

Validate(file_ok, t) ==
    IF ~file_ok THEN [pc |-> "exit", exit_code |-> <<1>>, err |-> <<GroupFileMissing>>]
    ELSE IF t <= 0 THEN [pc |-> "exit", exit_code |-> <<1>>, err |-> <<MinGroupsNotPositive>>]
    ELSE [pc |-> "parse", exit_code |-> <<>>, err |-> <<>>]

\* parse_group_file, given what open() did.  FileNotFoundError is caught and
\* ends the process with sys.exit(1); any other OSError is caught nowhere and
\* ends the interpreter with a traceback and status 1.  The faulty variant logs the
\* missing file and returns the empty mapping.
parse_group_file_no_exit(opened, lines) ==
    IF opened = "ok"
    THEN [pc |-> "analyze", exit_code |-> <<>>,
          gm |-> ParseContent(lines).gm, err |-> ParseContent(lines).err]
    ELSE IF opened = "FileNotFoundError"
    THEN [pc |-> "analyze", exit_code |-> <<>>, gm |-> <<>>, err |-> <<GroupFileNotFound>>]
    ELSE [pc |-> "exit", exit_code |-> <<1>>, gm |-> <<>>, err |-> <<UncaughtException>>]

parse_group_file(opened, lines) ==
    IF opened = "ok"
    THEN [pc |-> "analyze", exit_code |-> <<>>,
          gm |-> ParseContent(lines).gm, err |-> ParseContent(lines).err]
    ELSE IF opened = "FileNotFoundError"
    THEN [pc |-> "exit", exit_code |-> <<1>>, gm |-> <<>>, err |-> <<GroupFileNotFound>>]
    ELSE [pc |-> "exit", exit_code |-> <<1>>, gm |-> <<>>, err |-> <<UncaughtException>>]

\* write_output, given the destination, the file as it is, and what the
\* open and the writes did (written: the lines that reached the file before
\* a write failed).  The faulty variant prints the report when the file failed.
write_output_fallback(user_to_groups, dest, fs, result, written) ==
    LET output_lines == OutputLines(user_to_groups) IN
    IF dest = "None"
    THEN [fs |-> fs, out |-> output_lines, err |-> <<>>]
    ELSE IF result = "open_failed"
    THEN [fs |-> fs, out |-> output_lines, err |-> <<OutputWriteError>>]
    ELSE IF result = "write_failed"
    THEN [fs |-> [exists |-> TRUE, lines |-> SubSeq(output_lines, 1, written)],
          out |-> output_lines, err |-> <<OutputWriteError>>]
    ELSE [fs |-> [exists |-> TRUE, lines |-> output_lines],
          out |-> <<>>, err |-> <<OutputWritten>>]

write_output(user_to_groups, dest, fs, result, written) ==
    LET output_lines == OutputLines(user_to_groups) IN
    IF dest = "None"
    THEN [fs |-> fs, out |-> output_lines, err |-> <<>>]
    ELSE IF result = "open_failed"
    THEN [fs |-> fs, out |-> <<>>, err |-> <<OutputWriteError>>]
    ELSE IF result = "write_failed"
    THEN [fs |-> [exists |-> TRUE, lines |-> SubSeq(output_lines, 1, written)],
          out |-> <<>>, err |-> <<OutputWriteError>>]
    ELSE [fs |-> [exists |-> TRUE, lines |-> output_lines],
          out |-> <<>>, err |-> <<OutputWritten>>]

\* ---- inputs ----
LineCatalog ==
    {<<"a", ":", "x", ",", "y">>,                       \* a:x,y
     <<"b", ":", "x">>,                                 \* b:x
     <<"a", ":", "y">>,                                 \* a:y
     <<"b", ":", "x", ",", "x">>,                       \* b:x,x
     <<"x", "y">>,                                      \* xy
     <<"#", "a", ":", "x">>,                            \* #a:x
     <<" ">>,                                           \*  
     <<" ", "a", " ", ":", " ", "x", " ", ",", ",", " ", "y", " ", ",">>, \*  a : x ,, y ,
     <<"b", ":">>}

RECURSIVE SeqsUpTo(_, _)
SeqsUpTo(S, n) ==
    IF n = 0 THEN {<<>>}
    ELSE LET shorter == SeqsUpTo(S, n - 1) IN
         shorter \cup {Append(q, x) : q \in {r \in shorter : Len(r) = n - 1}, x \in S}

Files == SeqsUpTo(LineCatalog, MaxLines)

NoFile == [exists |-> FALSE, lines |-> <<>>]
OldReport == [exists |-> TRUE, lines |-> <<<<"o", "l", "d">>>>]

LineIdle ==
    /\ l_line = <<>> /\ l_pc = "idle" /\ l_memberships = <<>> /\ l_stderr = <<>>
AnalyzeIdle ==
    /\ a_memberships = <<>> /\ a_results = <<>>
MainIdle ==
    /\ pc = "idle" /\ group_file = <<>> /\ isfile = FALSE /\ min_groups = 0
    /\ output = "None" /\ out_fs = NoFile /\ open_result = "none"
    /\ write_result = "none" /\ group_memberships = <<>>
    /\ users_in_multiple_groups = <<>> /\ stdout = <<>> /\ stderr = <<>>
    /\ exit_code = <<>> /\ calls = <<>>

Init ==
    /\ pc = "start"
    /\ isfile \in BOOLEAN
    /\ group_file \in (IF isfile THEN Files ELSE {<<>>})
    /\ min_groups \in -1..MaxMinGroups
    /\ output \in {"None", "path"}
    /\ out_fs \in (IF output = "None" THEN {NoFile} ELSE {NoFile, OldReport})
    /\ open_result = "none"
    /\ write_result = "none"
    /\ group_memberships = <<>>
    /\ users_in_multiple_groups = <<>>
    /\ stdout = <<>>
    /\ stderr = <<>>
    /\ exit_code = <<>>
    /\ calls = <<>>
    /\ LineIdle
    /\ AnalyzeIdle

\* main, lines 143-150
DoValidate ==
    /\ pc = "start"
    /\ LET v == Validate(isfile, min_groups) IN
        /\ pc' = v.pc
        /\ exit_code' = v.exit_code
        /\ stderr' = stderr \o v.err
    /\ UNCHANGED <<group_file, isfile, min_groups, output, out_fs, open_result,
                   write_result, group_memberships, users_in_multiple_groups,
                   stdout, calls, line_vars, analyze_vars>>

\* main, line 152
DoParse ==
    /\ pc = "parse"
    /\ \E opened \in {"ok", "FileNotFoundError", "PermissionError"} :
        LET p == parse_group_file(opened, group_file) IN
        /\ open_result' = opened
        /\ pc' = p.pc
        /\ exit_code' = p.exit_code
        /\ group_memberships' = p.gm
        /\ stderr' = stderr \o p.err
    /\ calls' = Append(calls, "parse_group_file")
    /\ UNCHANGED <<group_file, isfile, min_groups, output, out_fs, write_result,
                   users_in_multiple_groups, stdout, line_vars, analyze_vars>>

\* main, line 153
DoAnalyze ==
    /\ pc = "analyze"
    /\ users_in_multiple_groups' = analyze_user_groups(group_memberships, min_groups)
    /\ calls' = Append(calls, "analyze_user_groups")
    /\ pc' = "write"
    /\ UNCHANGED <<group_file, isfile, min_groups, output, out_fs, open_result,
                   write_result, group_memberships, stdout, stderr, exit_code,
                   line_vars, analyze_vars>>

\* main, line 154, and the return of main: the process ends with status 0
DoWrite ==
    /\ pc = "write"
    /\ \E result \in {"ok", "open_failed", "write_failed"},
          written \in 0..Len(users_in_multiple_groups) :
        /\ output = "None" => result = "ok"
        /\ result = "write_failed" => written < Len(users_in_multiple_groups)
        /\ result # "write_failed" => written = 0
        /\ LET w == write_output(users_in_multiple_groups, output, out_fs, result, written) IN
            /\ out_fs' = w.fs
            /\ stdout' = stdout \o w.out
            /\ stderr' = stderr \o w.err
        /\ write_result' = IF output = "None" THEN "none" ELSE result
    /\ calls' = Append(calls, "write_output")
    /\ pc' = "done"
    /\ exit_code' = <<0>>
    /\ UNCHANGED <<group_file, isfile, min_groups, output, open_result,
                   group_memberships, users_in_multiple_groups,
                   line_vars, analyze_vars>>

Next == DoValidate \/ DoParse \/ DoAnalyze \/ DoWrite

Spec == Init /\ [][Next]_vars

(***************************************************************************)
(* The loop body of parse_group_file on one line, over every line of up to *)
(* MaxLineLen characters of Alphabet, and the line of the specification's  *)
(* example.                                                                *)
(***************************************************************************)
Alphabet == {"g", "u", ":", ",", " ", "#"}
ExampleLine == <<"g", ":", "a", "l", "i", "c", "e", ",", ",", " ", "b", "o", "b", " ", ",">>

InitLine ==
    /\ l_line \in SeqsUpTo(Alphabet, MaxLineLen) \cup {ExampleLine}
    /\ l_pc = "raw"
    /\ l_memberships = <<>>
    /\ l_stderr = <<>>
    /\ MainIdle
    /\ AnalyzeIdle

ParseOneLine ==
    /\ l_pc = "raw"
    /\ LET st == LineBody([gm |-> <<>>, err |-> <<>>], l_line) IN
        /\ l_memberships' = st.gm
        /\ l_stderr' = st.err
    /\ l_pc' = "parsed"
    /\ UNCHANGED <<l_line, main_vars, analyze_vars>>

NextLine == ParseOneLine

SpecLine == InitLine /\ [][NextLine]_vars

(***************************************************************************)
(* analyze_user_groups on its own, over every mapping of up to MaxGroups   *)
(* groups with up to MaxMembers members each, at every threshold from 1 to *)
(* MaxMinGroups.                                                           *)
(***************************************************************************)
GroupNames == {<<"a">>, <<"b">>, <<"c">>}
UserNames == {<<"x">>, <<"y">>}

Mappings ==
    {m \in SeqsUpTo(GroupNames \X SeqsUpTo(UserNames, MaxMembers), MaxGroups) :
        \A i, j \in 1..Len(m) : m[i][1] = m[j][1] => i = j}

InitAnalyze ==
    /\ a_memberships \in Mappings
    /\ a_results = <<>>
    /\ MainIdle
    /\ LineIdle

\* a_results[t] = analyze_user_groups(a_memberships, t), one threshold at a time
AnalyzeAt ==
    /\ \E t \in (1..MaxMinGroups) \ DOMAIN a_results :
        a_results' = [x \in DOMAIN a_results \cup {t} |->
                        IF x = t THEN analyze_user_groups(a_memberships, t)
                        ELSE a_results[x]]
    /\ UNCHANGED <<a_memberships, main_vars, line_vars>>

NextAnalyze == AnalyzeAt

SpecAnalyze == InitAnalyze /\ [][NextAnalyze]_vars

(***************************************************************************)
(* What the claims speak of, stated by position rather than by recursion.  *)
(***************************************************************************)
Range(q) == {q[i] : i \in 1..Len(q)}

Min(S) == CHOOSE x \in S : \A y \in S : x <= y
Max(S) == CHOOSE x \in S : \A y \in S : x >= y

\* s without its surrounding whitespace
Trim(s) ==
    LET solid == {i \in 1..Len(s) : s[i] \notin Whitespace} IN
    IF solid = {} THEN <<>> ELSE SubSeq(s, Min(solid), Max(solid))

HasColon(s) == \E i \in 1..Len(s) : s[i] = ":"
FirstColon(s) == Min({i \in 1..Len(s) : s[i] = ":"})

Blank(raw) == Trim(raw) = <<>>
Comment(raw) == ~Blank(raw) /\ Trim(raw)[1] = "#"
Malformed(raw) == ~Blank(raw) /\ ~Comment(raw) /\ ~HasColon(raw)
WellFormed(raw) == ~Blank(raw) /\ ~Comment(raw) /\ HasColon(raw)

\* of a well-formed line: the trimmed name before the first ':' and the
\* text after it
NameOf(raw) == Trim(SubSeq(Trim(raw), 1, FirstColon(Trim(raw)) - 1))
RestOf(raw) == SubSeq(Trim(raw), FirstColon(Trim(raw)) + 1, Len(Trim(raw)))

\* the comma-separated tokens of r: token b lies between the cut b and the
\* next cut, the cuts being 0, the commas and Len(r) + 1
Cuts(r) == {0} \cup {i \in 1..Len(r) : r[i] = ","} \cup {Len(r) + 1}
Token(r, b) == SubSeq(r, b + 1, Min({c \in Cuts(r) : c > b}) - 1)
Kept(r) == {b \in Cuts(r) \ {Len(r) + 1} : Trim(Token(r, b)) # <<>>}

\* the trimmed non-empty tokens of r in their order
TokensOf(r) ==
    [k \in 1..Cardinality(Kept(r)) |->
        Trim(Token(r, CHOOSE b \in Kept(r) : Cardinality({c \in Kept(r) : c <= b}) = k))]

\* the places <<i, j>> where user u stands in mapping m, and the users of m
Places(m, u) ==
    UNION {{<<i, j>> : j \in {n \in 1..Len(m[i][2]) : m[i][2][n] = u}} : i \in 1..Len(m)}
UsersOf(m) == UNION {Range(m[i][2]) : i \in 1..Len(m)}

\* the group names u collects from m: the k-th is the name of the group
\* holding the k-th place of u, places taken group by group in m's order
GroupsOf(m, u) ==
    [k \in 1..Cardinality(Places(m, u)) |->
        m[CHOOSE i \in 1..Len(m) :
            /\ Cardinality({p \in Places(m, u) : p[1] < i}) < k
            /\ k <= Cardinality({p \in Places(m, u) : p[1] <= i})][1]]

\* a sequence as a multiset
CountIn(q, x) == Cardinality({k \in 1..Len(q) : q[k] = x})
SeqBag(q) == [x \in Range(q) |-> CountIn(q, x)]

UniqueKeys(d) == \A i, j \in 1..Len(d) : d[i][1] = d[j][1] => i = j

C7_ThresholdMonotone ==
    \A t1, t2 \in DOMAIN a_results :
        t1 < t2 => Keys(a_results[t2]) \subseteq Keys(a_results[t1])

\* two thresholds computed, the larger keeping some users but not all
C7_Witness ==
    \E t1, t2 \in DOMAIN a_results :
        /\ t1 < t2
        /\ Keys(a_results[t2]) # {}
        /\ Keys(a_results[t2]) # Keys(a_results[t1])

\* C8: when every member list is non-empty, threshold 1 returns every user
\* of the mapping under exactly one key (one report line each), with the
\* groups containing the user as a multiset, once per occurrence.
C8_RoundTripAtOne ==
    (/\ 1 \in DOMAIN a_results
     /\ \A i \in 1..Len(a_memberships) : a_memberships[i][2] # <<>>)
    => LET r == a_results[1] IN
       /\ \A u \in UsersOf(a_memberships) :
            /\ Cardinality({i \in 1..Len(r) : r[i][1] = u}) = 1
            /\ SeqBag(DictGet(r, u)) =
                 [g \in {a_memberships[i][1] : i \in {p[1] : p \in Places(a_memberships, u)}} |->
                    CountIn(DictGet(a_memberships, g), u)]
       /\ Len(OutputLines(r)) = Cardinality(UsersOf(a_memberships))

\* two groups, no empty member list, a user twice in one of them
C8_Witness ==
    /\ 1 \in DOMAIN a_results
    /\ Len(a_memberships) = 2
    /\ \A i \in 1..Len(a_memberships) : a_memberships[i][2] # <<>>
    /\ \E i \in 1..Len(a_memberships) :
        a_memberships[i][2] = <<<<"x">>, <<"x">>>>
    /\ Cardinality(UsersOf(a_memberships)) = 2
    /\ Len(a_results[1]) = 2

(***************************************************************************)
(* Claims about the parse of a line (SpecLine)                             *)
(***************************************************************************)
\* C10: for a well-formed line the stored member list is the comma-separated
\* tokens after the first ':', trimmed, the empty ones dropped, in order and
\* with duplicates; `g:alice,, bob ,` gives [alice, bob] for g; no stored
\* member is empty.
C10_EmptyMemberFiltering ==
    (l_pc = "parsed" /\ WellFormed(l_line))
    => /\ Len(l_memberships) = 1
       /\ l_memberships[1][1] = NameOf(l_line)
       /\ l_memberships[1][2] = TokensOf(RestOf(l_line))
       /\ \A k \in 1..Len(l_memberships[1][2]) : l_memberships[1][2][k] # <<>>
       /\ l_line = ExampleLine =>
            l_memberships = <<<<<<"g">>, <<<<"a", "l", "i", "c", "e">>, <<"b", "o", "b">>>>>>>>

C10_Witness ==
    /\ l_pc = "parsed"
    /\ l_line = ExampleLine
    /\ l_memberships = <<<<<<"g">>, <<<<"a", "l", "i", "c", "e">>, <<"b", "o", "b">>>>>>>>

(***************************************************************************)
(* Claims about the whole run (Spec)                                       *)
(***************************************************************************)
Reported == pc = "done"

\* C2: every reported user is a member of at least min_groups distinct
\* groups.
C2_ReportedUserInMinGroupsDistinctGroups ==
    Reported =>
        \A e \in Range(users_in_multiple_groups) :
            Cardinality({i \in 1..Len(group_memberships) :
                            e[1] \in Range(group_memberships[i][2])}) >= min_groups

PreflightFails == ~isfile \/ min_groups <= 0

\* C3: when the group file is no existing file or min_groups <= 0, the only
\* step main takes is the exit with a non-zero status: no function of the
\* pipeline has been invoked, nothing is printed, and the output file is as
\* it was.
C3_PreflightBeforeProcessing ==
    [][PreflightFails =>
        /\ pc' = "exit"
        /\ exit_code' \notin {<<>>, <<0>>}
        /\ calls' = <<>>
        /\ stdout' = <<>>
        /\ out_fs' = out_fs
        /\ write_result' = "none"]_vars

\* the file exists, min_groups is 0, an earlier report is in place: exited
C3_Witness ==
    /\ pc = "exit"
    /\ isfile /\ min_groups = 0
    /\ group_file # <<>>
    /\ output = "path" /\ out_fs = OldReport
    /\ exit_code = <<1>>

\* C4: when the group file passed the existence check and open() then
\* fails, the process ends with a non-zero status, nothing is printed and
\* the output file is never opened.
C4_OpenFailureIsFatal ==
    open_result \notin {"none", "ok"} =>
        /\ isfile
        /\ pc = "exit"
        /\ exit_code \notin {<<>>, <<0>>}
        /\ stdout = <<>>
        /\ write_result = "none"
        /\ out_fs \in {NoFile, OldReport}
        /\ calls = <<"parse_group_file">>

\* the file vanished between the check and the open
C4_Witness ==
    /\ open_result = "FileNotFoundError"
    /\ isfile /\ group_file # <<>>
    /\ output = "path" /\ out_fs = OldReport
    /\ pc = "exit" /\ exit_code = <<1>>

WithoutMalformed(lines) ==
    LET IsKept(raw) == ~Malformed(raw) IN SelectSeq(lines, IsKept)

\* C6: every malformed line (non-blank, no comment, no ':') is logged and
\* skipped; the mapping is that of the file without those lines; the exit
\* status, once there is one, is 0.
C6_MalformedLineResilience ==
    open_result = "ok" =>
        /\ group_memberships = ParseContent(WithoutMalformed(group_file)).gm
        /\ \A raw \in Range(group_file) :
             Malformed(raw) =>
                CountIn(stderr, InvalidLine(Trim(raw))) = CountIn(group_file, raw)
        /\ exit_code \in {<<>>, <<0>>}
        /\ pc = "done" => exit_code = <<0>>

\* a file with a malformed line between two well-formed ones, run to the end
C6_Witness ==
    /\ pc = "done"
    /\ Len(group_file) = 3
    /\ WellFormed(group_file[1]) /\ Malformed(group_file[2]) /\ WellFormed(group_file[3])
    /\ Len(group_memberships) = 2
    /\ exit_code = <<0>>

\* the last well-formed line of the file that names group g
LastLineOf(lines, g) ==
    lines[Max({i \in 1..Len(lines) : WellFormed(lines[i]) /\ NameOf(lines[i]) = g})]

\* C9: a group name on several well-formed lines has exactly one entry,
\* with the members of the last such line; no user is credited with a group
\* whose last line does not list the user.
C9_DuplicateGroupLastWins ==
    open_result = "ok" =>
        /\ UniqueKeys(group_memberships)
        /\ Keys(group_memberships) =
             {NameOf(raw) : raw \in {l \in Range(group_file) : WellFormed(l)}}
        /\ \A g \in Keys(group_memberships) :
             DictGet(group_memberships, g) = TokensOf(RestOf(LastLineOf(group_file, g)))
        /\ pc \in {"write", "done"} =>
             \A e \in Range(users_in_multiple_groups) :
                \A g \in Range(e[2]) :
                    e[1] \in Range(TokensOf(RestOf(LastLineOf(group_file, g))))

\* group a given twice, x only on the earlier line: x is not reported at
\* threshold 1
C9_Witness ==
    /\ pc = "done"
    /\ min_groups = 1
    /\ Len(group_file) >= 2
    /\ WellFormed(group_file[1]) /\ WellFormed(group_file[2])
    /\ NameOf(group_file[1]) = NameOf(group_file[2])
    /\ <<"x">> \in Range(TokensOf(RestOf(group_file[1])))
    /\ <<"x">> \notin Range(TokensOf(RestOf(group_file[2])))
    /\ Len(group_memberships) = 1
    /\ <<"x">> \notin Keys(users_in_multiple_groups)
    /\ users_in_multiple_groups # <<>>

====
